---- MODULE Spec2Model ----
(***************************************************************************)
(* Benchmark harness of riskportal/risk-publication:                       *)
(*   risk_network/supp_fig_8.py, risk_network/supp_fig_10.py,              *)
(*   safe_network/supp_fig_10.py.                                          *)
(* The three scripts share one harness: measure_performance (the metrics   *)
(* probe), benchmark_{risk,safe}_workflow (the trial aggregator) and       *)
(* loop_and_benchmark_gpickle_files (the batch driver).  The model follows *)
(* the control flow of one call of loop_and_benchmark_gpickle_files,       *)
(* statement group by statement group, with Python's exception             *)
(* propagation made explicit.                                              *)
(*                                                                         *)
(* File names are sequences of one-character strings, so that split("_"),  *)
(* endswith(".gpickle"), int(...) and os.path.splitext are computed and    *)
(* not assumed.                                                            *)
(***************************************************************************)
EXTENDS Integers, Sequences, FiniteSets, TLC

(***************************************************************************)
(* Bounds of the model.                                                    *)
(***************************************************************************)
\* largest number of entries os.listdir returns
MaxFiles == 3
\* largest num_runs a batch is configured with
MaxRuns == 2

(***************************************************************************)
(* Text helpers.                                                           *)
(***************************************************************************)
Digits == <<"0", "1", "2", "3", "4", "5", "6", "7", "8", "9">>

\* the characters file names are built from, in code-point order
Alphabet == <<".">> \o Digits \o <<"_">> \o
            <<"a", "b", "c", "d", "e", "g", "h", "i", "j", "k", "l", "m", "n", "o", "p", "r",
              "s", "t", "x">>

\* position of character c in sequence s (0 when absent)
IndexOf(c, s) == IF \E i \in 1..Len(s) : s[i] = c
                 THEN CHOOSE i \in 1..Len(s) : s[i] = c
                 ELSE 0

\* str.endswith
EndsWith(s, suffix) ==
    /\ Len(s) >= Len(suffix)
    /\ SubSeq(s, Len(s) - Len(suffix) + 1, Len(s)) = suffix

\* str.split(sep) for a one-character separator: the list of tokens
RECURSIVE SplitFrom(_, _, _, _)
SplitFrom(s, sep, i, cur) ==
    IF i > Len(s) THEN <<cur>>
    ELSE IF s[i] = sep THEN <<cur>> \o SplitFrom(s, sep, i + 1, <<>>)
    ELSE SplitFrom(s, sep, i + 1, Append(cur, s[i]))

Split(s, sep) == SplitFrom(s, sep, 1, <<>>)

\* whether int(tok) succeeds, for tokens over Alphabet (no sign, no blanks)
IsIntLiteral(tok) ==
    /\ Len(tok) > 0
    /\ \A i \in 1..Len(tok) : IndexOf(tok[i], Digits) > 0

\* int(tok) of a decimal literal
RECURSIVE ToInt(_)
ToInt(tok) ==
    IF Len(tok) = 0 THEN 0
    ELSE 10 * ToInt(SubSeq(tok, 1, Len(tok) - 1)) + (IndexOf(tok[Len(tok)], Digits) - 1)

\* text order of two strings (Python's str <=)
RECURSIVE StrLE(_, _)
StrLE(a, b) ==
    IF Len(a) = 0 THEN TRUE
    ELSE IF Len(b) = 0 THEN FALSE
    ELSE IF a[1] = b[1] THEN StrLE(Tail(a), Tail(b))
    ELSE IndexOf(a[1], Alphabet) < IndexOf(b[1], Alphabet)

\* os.path.splitext(name)[0]: the name up to its last dot, when that dot
\* follows a character that is not a dot
LastDot(s) == IF \E i \in 1..Len(s) : s[i] = "."
              THEN CHOOSE i \in 1..Len(s) :
                       s[i] = "." /\ \A j \in (i + 1)..Len(s) : s[j] # "."
              ELSE 0

SplitextRoot(s) ==
    IF LastDot(s) > 1 /\ \E j \in 1..(LastDot(s) - 1) : s[j] # "."
    THEN SubSeq(s, 1, LastDot(s) - 1)
    ELSE s

\* str.replace(old, new): every occurrence, left to right
RECURSIVE Replace(_, _, _)
Replace(s, old, new) ==
    IF Len(s) < Len(old) \/ Len(old) = 0 THEN s
    ELSE IF SubSeq(s, 1, Len(old)) = old
         THEN new \o Replace(SubSeq(s, Len(old) + 1, Len(s)), old, new)
         ELSE <<s[1]>> \o Replace(Tail(s), old, new)

(***************************************************************************)
(* The corpus: names a directory listing may contain.                      *)
(***************************************************************************)
Suffix == <<".", "g", "p", "i", "c", "k", "l", "e">>
Prefix == <<"a", "_", "b", "_", "c", "_", "d", "_">>

\* a_b_c_d_5_e.gpickle, a_b_c_d_10_e.gpickle, a_b_c_d_100_e.gpickle
F5 == Prefix \o <<"5", "_", "e">> \o Suffix
F10 == Prefix \o <<"1", "0", "_", "e">> \o Suffix
F100 == Prefix \o <<"1", "0", "0", "_", "e">> \o Suffix
\* a_b_c_x_10_e.gpickle: another file with key 10
F10x == <<"a", "_", "b", "_", "c", "_", "x", "_", "1", "0", "_", "e">> \o Suffix
\* a_b_c_d_x_e.gpickle: token 4 is no integer
FBad == Prefix \o <<"x", "_", "e">> \o Suffix
\* a_b_c_d_7.gpickle: token 4 is "7.gpickle"
FTail == Prefix \o <<"7">> \o Suffix
\* a_5.gpickle: there is no token 4
FShort == <<"a", "_", "5">> \o Suffix
\* a_b_c_d_1_e.json: not a .gpickle file
FJson == Prefix \o <<"1", "_", "e", ".", "j", "s", "o", "n">>

\* a_b_c_d_5_e_node_id_adj.gpickle: the node-id-adjusted copy of F5 that an
\* earlier SAFE batch left behind
F5Adj == Prefix \o <<"5", "_", "e", "_", "n", "o", "d", "e", "_", "i", "d", "_", "a", "d", "j">>
         \o Suffix

FileNames == {F5, F10, F100, F10x, FBad, FTail, FShort, FJson}

\* the directories of at most MaxFiles entries
Directories == { d \in SUBSET FileNames : Cardinality(d) <= MaxFiles }

\* os.listdir(d): the entries of d, in arbitrary order
Listings(d) ==
    { l \in [1..Cardinality(d) -> d] : \A i, j \in 1..Len(l) : i # j => l[i] # l[j] }

(***************************************************************************)
(* loop_and_benchmark_gpickle_files: listing, ordering key, sort.          *)
(***************************************************************************)
\* index of the underscore-delimited token holding the node count
KeyField == 4

\* file_name.endswith(".gpickle")
Qualifies(file_name) == EndsWith(file_name, Suffix)

\* the exception int(file_name.split("_")[4]) raises, or "none"
KeyFailure(file_name) ==
    LET toks == Split(file_name, "_") IN
    IF Len(toks) < KeyField + 1 THEN "IndexError"
    ELSE IF ~IsIntLiteral(toks[KeyField + 1]) THEN "ValueError"
    ELSE "none"

\* int(file_name.split("_")[4])
KeyOf(file_name) == ToInt(Split(file_name, "_")[KeyField + 1])

\* [... for file_name in os.listdir(...) if file_name.endswith(".gpickle")]
Qualifying(l) == SelectSeq(l, Qualifies)

\* the first exception the list comprehension raises, or "none"
ListError(l) ==
    LET q == Qualifying(l) IN
    IF \E i \in 1..Len(q) : KeyFailure(q[i]) # "none"
    THEN KeyFailure(q[CHOOSE i \in 1..Len(q) :
                        /\ KeyFailure(q[i]) # "none"
                        /\ \A j \in 1..(i - 1) : KeyFailure(q[j]) = "none"])
    ELSE "none"

\* the (file_name, key) pairs of the comprehension
Pairs(l) == [i \in 1..Len(Qualifying(l)) |->
                <<Qualifying(l)[i], KeyOf(Qualifying(l)[i])>>]

\* KeyLE with a fault: sorted(...) without the key, the names compared as text
KeyLE_text(x, y) == StrLE(x[1], y[1])

\* sorted(..., key=lambda x: x[1]): x sorts no later than y
KeyLE(x, y) == x[2] <= y[2]

\* sorted() is stable: x goes behind every element that sorts no later
RECURSIVE InsertSorted(_, _)
InsertSorted(x, s) ==
    IF Len(s) = 0 THEN <<x>>
    ELSE IF KeyLE(s[1], x) THEN <<s[1]>> \o InsertSorted(x, Tail(s))
    ELSE <<x>> \o s

RECURSIVE Sorted(_)
Sorted(s) ==
    IF Len(s) = 0 THEN <<>>
    ELSE InsertSorted(s[Len(s)], Sorted(SubSeq(s, 1, Len(s) - 1)))

\* JsonName with a fault: base_name is cut at the first underscore
JsonName_prefix(file_name) ==
    Split(file_name, "_")[1] \o
    <<"_", "b", "e", "n", "c", "h", "m", "a", "r", "k", ".", "j", "s", "o", "n">>

\* f"{base_name}_benchmark.json" in json_output_directory
JsonName(file_name) ==
    SplitextRoot(file_name) \o
    <<"_", "b", "e", "n", "c", "h", "m", "a", "r", "k", ".", "j", "s", "o", "n">>

\* file name of the SAFE node-id-adjusted copy (written to ./data/gpickle/benchmark)
AdjName(file_name) ==
    Replace(file_name, Suffix,
            <<"_", "n", "o", "d", "e", "_", "i", "d", "_", "a", "d", "j">> \o Suffix)

\* the directories the scripts may be run from; they lie next to each other
\* in the checkout
WorkingDirs == {"risk_network", "safe_network"}

\* the directory a script lies in
ScriptDir(v) == IF v = "safe" THEN "safe_network" ELSE "risk_network"

\* gpickle_directory of __main__, resolved: "./data/gpickle/benchmark" run in
\* risk_network, "../risk_network/data/gpickle/benchmark" run next to it
InputDir == "risk_network/data/gpickle/benchmark"

\* file_path = os.path.join(gpickle_directory, file_name)
FilePath(file_name) == <<InputDir, file_name>>

\* g_adj_file_path: "./data/gpickle/benchmark/" resolved against the working
\* directory dir, and the adjusted name
AdjPath(dir, file_name) == <<dir \o "/data/gpickle/benchmark", AdjName(file_name)>>

(***************************************************************************)
(* execute_workflow: the library call the selector leads to.               *)
(***************************************************************************)
\* the values of stat_test
Selectors == {"permutation", "binom", "chi2", "hypergeom", "poisson", "zscore"}

\* stat_test_funcs of benchmark_risk_workflow
stat_test_funcs ==
    [binom |-> "load_neighborhoods_by_binom",
     chi2 |-> "load_neighborhoods_by_chi2",
     hypergeom |-> "load_neighborhoods_by_hypergeom",
     poisson |-> "load_neighborhoods_by_poisson",
     zscore |-> "load_neighborhoods_by_zscore"]

\* the method of risk that execute_workflow returns the result of
RiskCall(selector) ==
    IF selector = "permutation" THEN "load_neighborhoods_by_permutation"
    ELSE stat_test_funcs[selector]

\* sf.enrichment_type when sf.compute_pvalues is called
SafeCall(selector) ==
    IF selector = "permutation" THEN "permutation" ELSE "hypergeometric"

\* the library computation of one call of execute_workflow
LibraryCall(v, selector) ==
    IF v = "safe" THEN SafeCall(selector) ELSE RiskCall(selector)

\* the attributes of sf that execute_workflow has assigned when it raises in
\* load_network, in load_attributes or define_neighborhoods, in compute_pvalues;
\* the RISK workflow assigns no attribute of risk
AssignedUpTo(v) ==
    IF v = "safe"
    THEN { {}, {"background"},
           {"background", "enrichment_type", "enrichment_threshold"} }
    ELSE { {} }

\* the attributes of sf assigned when execute_workflow returns
Assigned(v) ==
    IF v = "safe" THEN {"background", "enrichment_type", "enrichment_threshold"}
    ELSE {}

(***************************************************************************)
(* measure_performance: what the process reports when it is sampled.       *)
(***************************************************************************)
\* bytes per megabyte, the divisor 1024**2
MB == 1048576

\* time.time(), process.cpu_times(), process.memory_info().rss and the peak
\* tracemalloc.get_traced_memory() reports, as one sample of the process
Samples ==
    { [time |-> 0, user |-> 0, system |-> 0, rss |-> 5 * MB, peak |-> 1 * MB],
      [time |-> 2, user |-> 1, system |-> 1, rss |-> 4 * MB, peak |-> 3 * MB] }

\* clocks do not run backwards from one sample to a later one
Later(s, e) == e.time >= s.time /\ e.user >= s.user /\ e.system >= s.system

MetricNames ==
    {"execution_time", "cpu_user_time", "cpu_system_time", "memory_usage",
     "peak_memory_usage"}

\* the metrics dict of measure_performance, from the start and end samples
MetricsOf(s, e) ==
    [execution_time |-> e.time - s.time,
     cpu_user_time |-> e.user - s.user,
     cpu_system_time |-> e.system - s.system,
     memory_usage |-> (e.rss \div MB) - (s.rss \div MB),
     peak_memory_usage |-> e.peak \div MB]

(***************************************************************************)
(* calculate_stats.  A mean is the exact fraction [num, den] in lowest     *)
(* terms; a standard deviation is given by its square (the sample          *)
(* variance) as such a fraction, so that it is 0 exactly when the          *)
(* fraction is 0/1.                                                        *)
(***************************************************************************)
RECURSIVE Gcd(_, _)
Gcd(a, b) == IF b = 0 THEN a ELSE Gcd(b, a % b)

Abs(x) == IF x < 0 THEN -x ELSE x

Frac(n, d) ==
    LET g == Gcd(Abs(n), d) IN [num |-> n \div g, den |-> d \div g]

Zero == [num |-> 0, den |-> 1]

RECURSIVE Sum(_)
Sum(xs) == IF Len(xs) = 0 THEN 0 ELSE xs[1] + Sum(Tail(xs))

\* [m[name] for m in metrics_list]
Column(metrics_list, name) ==
    [i \in 1..Len(metrics_list) |-> metrics_list[i][name]]

Squares(xs) == [i \in 1..Len(xs) |-> xs[i] * xs[i]]

\* statistics.mean raises StatisticsError on no data
MeanRaises(xs) == Len(xs) = 0
Mean(xs) == Frac(Sum(xs), Len(xs))

\* statistics.stdev raises StatisticsError on fewer than two data points
StdevRaises(xs) == Len(xs) < 2
Stdev(xs) ==
    Frac(Len(xs) * Sum(Squares(xs)) - Sum(xs) * Sum(xs), Len(xs) * (Len(xs) - 1))

\* the guard of every stdev_ entry with a fault: stdev is always computed
UsesStdev_always(n_runs) == TRUE

\* ... if num_runs > 1 else 0
UsesStdev(n_runs) == n_runs > 1

\* whether calculate_stats(metrics_list) raises
StatsRaises(metrics_list, n_runs) ==
    \/ MeanRaises(Column(metrics_list, "execution_time"))
    \/ UsesStdev(n_runs) /\ StdevRaises(Column(metrics_list, "execution_time"))

StatNames ==
    {"avg_execution_time", "stdev_execution_time",
     "avg_cpu_user_time", "stdev_cpu_user_time",
     "avg_cpu_system_time", "stdev_cpu_system_time",
     "avg_memory_usage", "stdev_memory_usage",
     "avg_peak_memory_usage", "stdev_peak_memory_usage"}

StdevEntry(metrics_list, n_runs, name) ==
    IF UsesStdev(n_runs) THEN Stdev(Column(metrics_list, name)) ELSE Zero

\* the dict calculate_stats returns
calculate_stats(metrics_list, n_runs) ==
    [avg_execution_time |-> Mean(Column(metrics_list, "execution_time")),
     stdev_execution_time |-> StdevEntry(metrics_list, n_runs, "execution_time"),
     avg_cpu_user_time |-> Mean(Column(metrics_list, "cpu_user_time")),
     stdev_cpu_user_time |-> StdevEntry(metrics_list, n_runs, "cpu_user_time"),
     avg_cpu_system_time |-> Mean(Column(metrics_list, "cpu_system_time")),
     stdev_cpu_system_time |-> StdevEntry(metrics_list, n_runs, "cpu_system_time"),
     avg_memory_usage |-> Mean(Column(metrics_list, "memory_usage")),
     stdev_memory_usage |-> StdevEntry(metrics_list, n_runs, "memory_usage"),
     avg_peak_memory_usage |-> Mean(Column(metrics_list, "peak_memory_usage")),
     stdev_peak_memory_usage |-> StdevEntry(metrics_list, n_runs, "peak_memory_usage")]

(***************************************************************************)
(* State.                                                                  *)
(***************************************************************************)
(***************************************************************************)
(* shift_node_ids_left (SAFE): graphs and the relabeling.                  *)
(***************************************************************************)
\* bound on the number of edges of a graph
MaxEdges == 2

\* bound on the number of nodes of a graph
MaxNodes == 3

\* node identifiers a graph may use
NodeIds == {0, 3, 7, 9}

\* an attribute dictionary is a set of (key, value) pairs with distinct keys
NodeAttrs == { {}, {<<"w", 1>>}, {<<"label", 5>>} }
EdgeAttrs == { {}, {<<"weight", 2>>} }

\* key in dictionary
HasKey(d, k) == \E a \in d : a[1] = k

\* the node pairs an edge may join; nx.Graph holds the edge {u, v} once
EdgeKeys(ns, directed) == { e \in ns \X ns : directed \/ e[1] <= e[2] }

\* nx.Graph / nx.DiGraph over the nodes ns with at most max_edges edges:
\* node -> attributes, (u, v) -> attributes
GraphsOn(ns, directed, max_edges) ==
    UNION { { [directed |-> directed, nodes |-> na, edges |-> ea] :
                  na \in [ns -> NodeAttrs], ea \in [es -> EdgeAttrs] } :
            es \in { x \in SUBSET EdgeKeys(ns, directed) :
                         Cardinality(x) <= max_edges } }

\* the graphs of at most max_nodes nodes and max_edges edges
Graphs(max_nodes, max_edges) ==
    UNION { GraphsOn(ns, d, max_edges) :
                ns \in { x \in SUBSET NodeIds : Cardinality(x) <= max_nodes },
                d \in BOOLEAN }

EmptyGraph == [directed |-> FALSE, nodes |-> <<>>, edges |-> <<>>]

\* shift_node_ids_left was not called
NoResult == [status |-> "none", graph |-> EmptyGraph]

\* original_ids = sorted(graph.nodes())
RECURSIVE SortedIds(_)
SortedIds(ns) ==
    IF ns = {} THEN <<>>
    ELSE LET least == CHOOSE x \in ns : \A y \in ns : x <= y
         IN  <<least>> \o SortedIds(ns \ {least})

\* mapping = {old: new for new, old in enumerate(original_ids)}
Mapping(g) ==
    LET original_ids == SortedIds(DOMAIN g.nodes)
    IN  [old \in DOMAIN g.nodes |->
            (CHOOSE new \in 1..Len(original_ids) : original_ids[new] = old) - 1]

\* add_node(new_id, **graph.nodes[old_id], label=old_id) is given the
\* keyword label twice when the node has a label attribute: TypeError
ShiftRaises(g) == \E old_id \in DOMAIN g.nodes : HasKey(g.nodes[old_id], "label")

\* shifted_graph after the two loops over mapping.items() and graph.edges
ShiftedGraph(g) ==
    LET mapping == Mapping(g)
        Old(new_id) == CHOOSE old_id \in DOMAIN g.nodes : mapping[old_id] = new_id
    IN  [directed |-> g.directed,
         nodes |-> [new_id \in { mapping[old_id] : old_id \in DOMAIN g.nodes } |->
                       g.nodes[Old(new_id)] \cup {<<"label", Old(new_id)>>}],
         edges |-> [e \in { <<mapping[k[1]], mapping[k[2]]>> : k \in DOMAIN g.edges } |->
                       g.edges[<<Old(e[1]), Old(e[2])>>]]]

\* what a call of shift_node_ids_left gives: the graph returned, or the
\* exception raised
shift_node_ids_left(g) ==
    IF ShiftRaises(g)
    THEN [status |-> "TypeError", graph |-> EmptyGraph]
    ELSE [status |-> "ok", graph |-> ShiftedGraph(g)]

VARIABLES
    variant,           \* "risk" (supp_fig_8, supp_fig_10) or "safe"
    directory,         \* the entries of gpickle_directory
    num_runs,          \* the num_runs argument of the batch
    pc,                \* the statement the interpreter is at
    exc,               \* the exception in flight or raised out of the batch
    sorted_files,      \* local sorted_files of the batch driver
    idx,               \* number of entries of sorted_files the for loop took
    run,               \* number of iterations range(num_runs) has started
    proc,              \* what the process reports when sampled now
    start_sample,      \* start_time, cpu_times_before, memory_before
    combined_metrics,  \* local combined_metrics of the trial aggregator
    metrics,           \* local metrics of the batch driver: <<>> when unbound
    tracing,           \* tracemalloc.is_tracing()
    artifacts,         \* json_output_directory: file name -> document
    derived,           \* paths of the node-id-adjusted copies written (SAFE)
    trace,             \* calls on the outside world, in order
    cwd,               \* the directory the script is run from
    stat_test,         \* the stat_test argument of the batch
    sf,                \* attributes the workloads have assigned on the library
                       \* object of the file (risk, or sf = safe.SAFE())
    graph,             \* argument of shift_node_ids_left
    shifted,           \* what shift_node_ids_left(graph) gave
    reshifted          \* what shift_node_ids_left gave on its own output

vars == <<variant, directory, num_runs, pc, exc, sorted_files, idx, run, proc,
          start_sample, combined_metrics, metrics, tracing, artifacts,
          derived, trace, cwd, stat_test, sf, graph, shifted, reshifted>>

\* what no statement of a batch assigns
fixed == <<cwd, stat_test, graph, shifted, reshifted>>

\* the entry of sorted_files the loop body is working on
file_name == sorted_files[idx][1]

\* one call on the outside world, made while file_name is processed
Event(e) == [ev |-> e, file |-> file_name, arg |-> "none"]

NoArtifacts == [n \in {} |-> Zero]

\* no statement of the batch has run
NotStarted ==
    /\ exc = "none"
    /\ sorted_files = <<>>
    /\ idx = 0
    /\ run = 0
    /\ proc \in {s \in Samples : s.time = 0}
    /\ start_sample = proc
    /\ combined_metrics = <<>>
    /\ metrics = <<>>
    /\ tracing = FALSE
    /\ artifacts = NoArtifacts
    /\ derived = {}
    /\ trace = <<>>
    /\ sf = {}

\* shift_node_ids_left is not under study
NoGraph ==
    /\ graph = EmptyGraph
    /\ shifted = NoResult
    /\ reshifted = NoResult

\* a batch as __main__ starts it, with stat_test="hypergeom", over any
\* directory and number of runs; the RISK script runs in its own directory,
\* the SAFE script there or next to it
Init ==
    /\ variant \in {"risk", "safe"}
    /\ directory \in Directories
    /\ num_runs \in 0..MaxRuns
    /\ cwd \in IF variant = "safe" THEN WorkingDirs ELSE {ScriptDir(variant)}
    /\ stat_test = "hypergeom"
    /\ pc = "start"
    /\ NotStarted
    /\ NoGraph

(***************************************************************************)
(* loop_and_benchmark_gpickle_files                                        *)
(***************************************************************************)
\* ListAndSort with a fault: a file whose key does not parse is left out
ListAndSort_skip ==
    /\ pc = "start"
    /\ \E listing \in Listings(directory) :
           sorted_files' =
               Sorted(Pairs(SelectSeq(Qualifying(listing),
                                      LAMBDA f : KeyFailure(f) = "none")))
    /\ pc' = "loop"
    /\ UNCHANGED <<fixed, sf, variant, proc, directory, num_runs, exc, idx, run, start_sample,
                   combined_metrics, metrics, tracing, artifacts, derived, trace>>

\* os.makedirs; sorted_files = sorted([...], key=...)
ListAndSort ==
    /\ pc = "start"
    /\ \E listing \in Listings(directory) :
           IF ListError(listing) # "none"
           THEN /\ exc' = ListError(listing)
                /\ pc' = "raised"
                /\ UNCHANGED sorted_files
           ELSE /\ sorted_files' = Sorted(Pairs(listing))
                /\ pc' = "loop"
                /\ UNCHANGED exc
    /\ UNCHANGED <<fixed, sf, variant, proc, directory, num_runs, idx, run, start_sample,
                   combined_metrics, metrics, tracing, artifacts, derived, trace>>

\* NextFile with a fault: the directory is listed and sorted again at every
\* iteration, and the loop takes the entry at the next position
NextFile_relist ==
    /\ pc = "loop"
    /\ \E listing \in Listings(directory) :
        /\ ListError(listing) = "none"
        /\ sorted_files' = Sorted(Pairs(listing))
    /\ idx < Len(sorted_files')
    /\ idx' = idx + 1
    /\ trace' = Append(trace, [ev |-> "processing", file |-> sorted_files'[idx + 1][1],
                                arg |-> "none"])
    /\ pc' = "benchmark"
    /\ UNCHANGED <<fixed, sf, variant, proc, directory, num_runs, exc, run, start_sample,
                   combined_metrics, metrics, tracing, artifacts, derived>>

\* for file_name, _ in sorted_files: paths, print("Processing ..."), try:
NextFile ==
    /\ pc = "loop"
    /\ idx < Len(sorted_files)
    /\ idx' = idx + 1
    /\ trace' = Append(trace, [ev |-> "processing", file |-> sorted_files[idx + 1][1],
                                arg |-> "none"])
    /\ pc' = "benchmark"
    /\ UNCHANGED <<fixed, sf, variant, proc, directory, num_runs, exc, sorted_files, run, start_sample,
                   combined_metrics, metrics, tracing, artifacts, derived>>

\* the for loop is exhausted: the function returns
Return ==
    /\ pc = "loop"
    /\ idx = Len(sorted_files)
    /\ pc' = "done"
    /\ UNCHANGED <<fixed, sf, variant, proc, directory, num_runs, exc, sorted_files, idx, run,
                   start_sample, combined_metrics, metrics, tracing, artifacts,
                   derived, trace>>

(***************************************************************************)
(* benchmark_risk_workflow / benchmark_safe_workflow                       *)
(***************************************************************************)
\* BeginBenchmark with a fault: combined_metrics is not a fresh list per call
\* of the trial aggregator, the records of earlier files stay in it
BeginBenchmark_keep ==
    /\ pc = "benchmark"
    /\ \E outcome \in {"ok", "raise"} :
        /\ IF variant = "safe" /\ outcome # "raise"
           THEN /\ derived' = derived \cup {AdjPath(cwd, file_name)}
                /\ trace' = trace \o <<Event("shift_node_ids_left"),
                                       Event("write_gpickle")>>
           ELSE UNCHANGED <<derived, trace>>
        /\ IF outcome = "ok"
           THEN /\ run' = 0
                /\ pc' = "for"
                /\ UNCHANGED exc
           ELSE /\ exc' = "LibraryError"
                /\ pc' = "except"
                /\ UNCHANGED run
    /\ sf' = {}
    /\ UNCHANGED <<fixed, variant, proc, directory, num_runs, sorted_files, idx,
                   start_sample, combined_metrics, metrics, tracing, artifacts>>

\* the statements before the trial loop: RISK(verbose=False), or the
\* node-id adjustment, write_gpickle and safe.SAFE(); any of them may raise
BeginBenchmark ==
    /\ pc = "benchmark"
    /\ \E outcome \in {"ok", "raise", "raise_after_write"} :
        /\ outcome = "raise_after_write" => variant = "safe"
        /\ IF variant = "safe" /\ outcome # "raise"
           THEN /\ derived' = derived \cup {AdjPath(cwd, file_name)}
                /\ directory' = IF AdjPath(cwd, file_name)[1] = InputDir
                                THEN directory \cup {AdjName(file_name)}
                                ELSE directory
                /\ trace' = trace \o <<Event("shift_node_ids_left"),
                                       Event("write_gpickle")>>
           ELSE UNCHANGED <<derived, directory, trace>>
        /\ IF outcome = "ok"
           THEN /\ combined_metrics' = <<>>
                /\ run' = 0
                /\ pc' = "for"
                /\ UNCHANGED exc
           ELSE /\ exc' = "LibraryError"
                /\ pc' = "except"
                /\ UNCHANGED <<combined_metrics, run>>
    /\ sf' = {}
    /\ UNCHANGED <<fixed, variant, proc, num_runs, sorted_files, idx, start_sample,
                   metrics, tracing, artifacts>>

\* DefineWorkflow with a fault: the closure is built on the first trial only
DefineWorkflow_once ==
    /\ pc = "for"
    /\ run < num_runs
    /\ run' = run + 1
    /\ trace' = IF run = 0 THEN Append(trace, Event("def")) ELSE trace
    /\ pc' = "measure"
    /\ UNCHANGED <<fixed, sf, variant, proc, directory, num_runs, exc, sorted_files, idx, start_sample,
                   combined_metrics, metrics, tracing, artifacts, derived>>

\* for _ in range(num_runs): def execute_workflow(): ...
DefineWorkflow ==
    /\ pc = "for"
    /\ run < num_runs
    /\ run' = run + 1
    /\ trace' = Append(trace, Event("def"))
    /\ pc' = "measure"
    /\ UNCHANGED <<fixed, sf, variant, proc, directory, num_runs, exc, sorted_files, idx, start_sample,
                   combined_metrics, metrics, tracing, artifacts, derived>>

\* Aggregate with a fault: calculate_stats gives zeros for an empty list
Aggregate_zeros ==
    /\ pc = "for"
    /\ run = num_runs
    /\ IF combined_metrics = <<>>
       THEN /\ metrics' = <<[n \in StatNames |-> Zero]>>
            /\ pc' = "write"
            /\ UNCHANGED exc
       ELSE IF StatsRaises(combined_metrics, num_runs)
       THEN /\ exc' = "StatisticsError"
            /\ pc' = "except"
            /\ UNCHANGED metrics
       ELSE /\ metrics' = <<calculate_stats(combined_metrics, num_runs)>>
            /\ pc' = "write"
            /\ UNCHANGED exc
    /\ UNCHANGED <<fixed, sf, variant, proc, directory, num_runs, sorted_files, idx, run, start_sample,
                   combined_metrics, tracing, artifacts, derived, trace>>

\* return calculate_stats(combined_metrics), bound to metrics by the driver
Aggregate ==
    /\ pc = "for"
    /\ run = num_runs
    /\ IF StatsRaises(combined_metrics, num_runs)
       THEN /\ exc' = "StatisticsError"
            /\ pc' = "except"
            /\ UNCHANGED metrics
       ELSE /\ metrics' = <<calculate_stats(combined_metrics, num_runs)>>
            /\ pc' = "write"
            /\ UNCHANGED exc
    /\ UNCHANGED <<fixed, sf, variant, proc, directory, num_runs, sorted_files, idx, run, start_sample,
                   combined_metrics, tracing, artifacts, derived, trace>>

(***************************************************************************)
(* measure_performance                                                     *)
(***************************************************************************)
\* the workload runs: the clocks advance, memory is allocated and freed
Elapse == \E e \in Samples : Later(proc, e) /\ proc' = e

\* start_time, cpu_times_before, memory_before; tracemalloc.start()
ProbeEnter ==
    /\ pc = "measure"
    /\ start_sample' = proc
    /\ tracing' = TRUE
    /\ trace' = trace \o <<Event("sample_start"), Event("trace_start")>>
    /\ pc' = "call"
    /\ UNCHANGED <<fixed, sf, variant, proc, directory, num_runs, exc, sorted_files, idx, run,
                   combined_metrics, metrics, artifacts, derived>>

\* result = func(): execute_workflow returns
WorkloadReturns ==
    /\ pc = "call"
    /\ Elapse
    /\ sf' = Assigned(variant)
    /\ trace' = Append(trace, [Event("call") EXCEPT
                                   !.arg = LibraryCall(variant, stat_test)])
    /\ pc' = "measured"
    /\ UNCHANGED <<fixed, variant, directory, num_runs, exc, sorted_files, idx, run,
                   start_sample, combined_metrics, metrics, tracing, artifacts,
                   derived>>

\* WorkloadRaises with a fault: the probe reports what it measured so far
WorkloadRaises_partial ==
    /\ pc = "call"
    /\ Elapse
    /\ trace' = trace \o <<Event("call"), Event("raise")>>
    /\ combined_metrics' =
           Append(combined_metrics, MetricsOf(start_sample, start_sample))
    /\ exc' = "WorkloadError"
    /\ pc' = "except"
    /\ UNCHANGED <<fixed, sf, variant, directory, num_runs, sorted_files, idx, run, start_sample,
                   metrics, tracing, artifacts, derived>>

\* WorkloadRaises with a fault: the trial loop swallows the error and goes on
WorkloadRaises_continue ==
    /\ pc = "call"
    /\ Elapse
    /\ trace' = trace \o <<Event("call"), Event("raise")>>
    /\ pc' = "for"
    /\ UNCHANGED <<fixed, sf, variant, directory, num_runs, exc, sorted_files, idx, run,
                   start_sample, combined_metrics, metrics, tracing, artifacts,
                   derived>>

\* result = func(): execute_workflow raises; nothing between the call and the
\* except clause of the batch driver catches it
WorkloadRaises ==
    /\ pc = "call"
    /\ Elapse
    /\ sf' \in AssignedUpTo(variant)
    /\ trace' = trace \o <<Event("call"), Event("raise")>>
    /\ exc' = "WorkloadError"
    /\ pc' = "except"
    /\ UNCHANGED <<fixed, variant, directory, num_runs, sorted_files, idx, run, start_sample,
                   combined_metrics, metrics, tracing, artifacts, derived>>

\* ProbeExit with a fault: tracemalloc.stop() before get_traced_memory(),
\* which then reports a peak of 0
ProbeExit_stop_first ==
    /\ pc = "measured"
    /\ combined_metrics' =
           Append(combined_metrics,
                  [MetricsOf(start_sample, proc) EXCEPT !.peak_memory_usage = 0])
    /\ tracing' = FALSE
    /\ trace' = trace \o <<Event("trace_stop"), Event("peak_read"), Event("sample_end")>>
    /\ pc' = "for"
    /\ UNCHANGED <<fixed, sf, variant, proc, directory, num_runs, exc, sorted_files, idx, run,
                   start_sample, metrics, artifacts, derived>>

\* get_traced_memory(); tracemalloc.stop(); end_time, cpu_times_after,
\* memory_after; metrics = {...}; return; combined_metrics.append(...)
ProbeExit ==
    /\ pc = "measured"
    /\ combined_metrics' = Append(combined_metrics, MetricsOf(start_sample, proc))
    /\ tracing' = FALSE
    /\ trace' = trace \o <<Event("peak_read"), Event("trace_stop"), Event("sample_end")>>
    /\ pc' = "for"
    /\ UNCHANGED <<fixed, sf, variant, proc, directory, num_runs, exc, sorted_files, idx, run,
                   start_sample, metrics, artifacts, derived>>

(***************************************************************************)
(* loop_and_benchmark_gpickle_files: the rest of the loop body             *)
(***************************************************************************)
\* write_json(metrics, json_path); print("Saved results to ...")
WriteJson ==
    /\ pc = "write"
    /\ \/ /\ artifacts' = (JsonName(file_name) :> metrics[1]) @@ artifacts
          /\ trace' = trace \o <<Event("write_json"), Event("saved")>>
          /\ pc' = "cleanup"
          /\ UNCHANGED exc
       \/ /\ exc' = "OSError"
          /\ pc' = "except"
          /\ UNCHANGED <<artifacts, trace>>
    /\ UNCHANGED <<fixed, sf, variant, proc, directory, num_runs, sorted_files, idx, run, start_sample,
                   combined_metrics, metrics, tracing, derived>>

\* HandleError with a fault: the handler writes a document for the file
HandleError_write ==
    /\ pc = "except"
    /\ trace' = trace \o <<[Event("error") EXCEPT !.arg = exc], Event("write_json")>>
    /\ artifacts' = (JsonName(file_name) :> Zero) @@ artifacts
    /\ exc' = "none"
    /\ pc' = "cleanup"
    /\ UNCHANGED <<fixed, sf, variant, proc, directory, num_runs, sorted_files, idx, run, start_sample,
                   combined_metrics, metrics, tracing, derived>>

\* except Exception as e: print(f"Error processing {file_name}: {e}")
HandleError ==
    /\ pc = "except"
    /\ trace' = Append(trace, [Event("error") EXCEPT !.arg = exc])
    /\ exc' = "none"
    /\ pc' = "cleanup"
    /\ UNCHANGED <<fixed, sf, variant, proc, directory, num_runs, sorted_files, idx, run, start_sample,
                   combined_metrics, metrics, tracing, artifacts, derived>>

\* del metrics; gc.collect().  del of an unbound local raises
\* UnboundLocalError, outside the try statement
Cleanup ==
    /\ pc = "cleanup"
    /\ IF metrics = <<>>
       THEN /\ exc' = "UnboundLocalError"
            /\ pc' = "raised"
            /\ UNCHANGED <<metrics, trace>>
       ELSE /\ metrics' = <<>>
            /\ trace' = trace \o <<Event("del"), Event("gc")>>
            /\ pc' = "loop"
            /\ UNCHANGED exc
    /\ UNCHANGED <<fixed, sf, variant, proc, directory, num_runs, sorted_files, idx, run, start_sample,
                   combined_metrics, tracing, artifacts, derived>>

Next ==
    \/ ListAndSort
    \/ NextFile
    \/ Return
    \/ BeginBenchmark
    \/ DefineWorkflow
    \/ Aggregate
    \/ ProbeEnter
    \/ WorkloadReturns
    \/ WorkloadRaises
    \/ ProbeExit
    \/ WriteJson
    \/ HandleError
    \/ Cleanup

Spec == Init /\ [][Next]_vars

(***************************************************************************)
(* The batch under every selector and working directory, over a corpus in  *)
(* which an earlier SAFE batch may have left its copy of F5.               *)
(***************************************************************************)
InitConfig ==
    /\ variant \in {"risk", "safe"}
    /\ directory \in (SUBSET {F5, F10, F5Adj}) \ {{}}
    /\ num_runs \in 1..MaxRuns
    /\ cwd \in IF variant = "safe" THEN WorkingDirs ELSE {ScriptDir(variant)}
    /\ stat_test \in Selectors
    /\ pc = "start"
    /\ NotStarted
    /\ NoGraph

SpecConfig == InitConfig /\ [][Next]_vars

(***************************************************************************)
(* shift_node_ids_left applied to a graph, then to its own output.         *)
(***************************************************************************)
InitShift ==
    /\ graph \in Graphs(MaxNodes, MaxEdges)
    /\ shifted = NoResult
    /\ reshifted = NoResult
    /\ pc = "graph"
    /\ variant = "safe"
    /\ directory = {}
    /\ num_runs = 0
    /\ cwd = ScriptDir(variant)
    /\ stat_test = "hypergeom"
    /\ NotStarted

\* g_adj = shift_node_ids_left(graph)
Shift ==
    /\ pc = "graph"
    /\ shifted' = shift_node_ids_left(graph)
    /\ pc' = "shifted"
    /\ UNCHANGED <<graph, reshifted, variant, directory, num_runs, exc, sorted_files,
                   idx, run, proc, start_sample, combined_metrics, metrics, tracing,
                   artifacts, derived, trace, cwd, stat_test, sf>>

\* shift_node_ids_left(g_adj): the function applied to the graph it returned
Reshift ==
    /\ pc = "shifted"
    /\ shifted.status = "ok"
    /\ reshifted' = shift_node_ids_left(shifted.graph)
    /\ pc' = "reshifted"
    /\ UNCHANGED <<graph, shifted, variant, directory, num_runs, exc, sorted_files,
                   idx, run, proc, start_sample, combined_metrics, metrics, tracing,
                   artifacts, derived, trace, cwd, stat_test, sf>>

NextShift ==
    \/ Shift
    \/ Reshift

SpecShift == InitShift /\ [][NextShift]_vars

(***************************************************************************)
(* Reading the trace.                                                      *)
(***************************************************************************)
\* number of events named e in a sequence of events
Count(s, e) == Cardinality({i \in 1..Len(s) : s[i].ev = e})

\* the events made while file f was processed, in order
Seg(f) == SelectSeq(trace, LAMBDA x : x.file = f)

\* the events of file f that precede position i of the trace
SegBefore(f, i) == SelectSeq(SubSeq(trace, 1, i - 1), LAMBDA x : x.file = f)

\* the names of the events of a sequence
EvNames(s) == [i \in 1..Len(s) |-> s[i].ev]

\* the files whose processing has begun, in order
Processed ==
    LET p == SelectSeq(trace, LAMBDA x : x.ev = "processing")
    IN  [i \in 1..Len(p) |-> p[i].file]

\* the batch call has ended, by return or by an exception
Ended == pc \in {"done", "raised"}

\* the trial aggregator is running, or an error of its trials is in flight
InTrials ==
    \/ pc \in {"for", "measure", "call", "measured"}
    \/ pc = "except" /\ exc \in {"WorkloadError", "StatisticsError"}

(***************************************************************************)
(* C1: per-file isolation.  A workload that raises is logged, the batch    *)
(* call does not raise because of it, and every file of sorted_files is    *)
(* processed: a batch that has begun processing ends by returning, with    *)
(* one artifact or one logged failure for every file.                      *)
(***************************************************************************)
C1_PerFileIsolation ==
    /\ pc = "raised" => trace = <<>>
    /\ (Ended /\ sorted_files # <<>>) =>
           /\ Len(Processed) = Len(sorted_files)
           /\ Count(trace, "write_json") + Count(trace, "error") = Len(sorted_files)

(***************************************************************************)
(* C2: the allocation tracer is stopped whenever measure_performance is    *)
(* not between its tracemalloc.start() and tracemalloc.stop(): after the   *)
(* probe has returned and after it has propagated an error.                *)
(***************************************************************************)
C2_TracerStopped == pc \notin {"call", "measured"} => ~tracing

(***************************************************************************)
(* C3: an artifact is written for a file only after num_runs trials of     *)
(* that file have completed and none has raised; a file with a logged      *)
(* error has no artifact; at most one artifact is written per file.        *)
(***************************************************************************)
C3_ArtifactAfterAllTrials ==
    /\ \A i \in 1..Len(trace) :
           trace[i].ev = "write_json" =>
               LET seg == SegBefore(trace[i].file, i) IN
               /\ Count(seg, "sample_end") = num_runs
               /\ Count(seg, "raise") = 0
               /\ Count(seg, "error") = 0
               /\ Count(seg, "write_json") = 0
    /\ DOMAIN artifacts =
           {JsonName(trace[i].file) : i \in {j \in 1..Len(trace) : trace[j].ev = "write_json"}}
    /\ \A i \in 1..Len(trace) :
           trace[i].ev = "error" => JsonName(trace[i].file) \notin DOMAIN artifacts

\* one file has its artifact after two trials, the next one failed in a trial
C3_Witness ==
    /\ num_runs = 2
    /\ Cardinality(DOMAIN artifacts) = 1
    /\ \E i \in 1..Len(trace) : trace[i].ev = "error" /\ trace[i].arg = "WorkloadError"

(***************************************************************************)
(* C4: a workload that raises leaves no metrics record: the error reaches  *)
(* the caller of the probe, and combined_metrics holds exactly one record  *)
(* per probe invocation that completed.                                    *)
(***************************************************************************)
C4_NoPartialRecord ==
    /\ InTrials => Len(combined_metrics) = Count(Seg(file_name), "sample_end")
    /\ (trace # <<>> /\ trace[Len(trace)].ev = "raise") =>
           /\ pc = "except"
           /\ exc = "WorkloadError"
           /\ metrics = <<>>
           /\ Len(combined_metrics) = run - 1

\* the second trial of a file has raised after the first one was recorded
C4_Witness ==
    /\ pc = "except"
    /\ exc = "WorkloadError"
    /\ run = 2
    /\ Len(combined_metrics) = 1

(***************************************************************************)
(* C5: a trial that raises aborts the aggregation of its file: no later    *)
(* trial of the file is built, probed or run, nothing is written for it,   *)
(* and an aggregate exists only for num_runs records, none of them from a  *)
(* file one of whose trials raised.                                        *)
(***************************************************************************)
C5_RaisingTrialAborts ==
    /\ \A i \in 1..Len(trace) :
           trace[i].ev = "raise" =>
               \A j \in (i + 1)..Len(trace) :
                   trace[j].file = trace[i].file =>
                       trace[j].ev \notin {"def", "sample_start", "call", "write_json"}
    /\ metrics # <<>> =>
           /\ Len(combined_metrics) = num_runs
           /\ Count(Seg(file_name), "raise") = 0

\* the first trial of a file succeeded, the second raised, the error is logged
C5_Witness ==
    /\ pc = "cleanup"
    /\ num_runs = 2
    /\ metrics = <<>>
    /\ Count(Seg(file_name), "sample_end") = 1
    /\ Count(Seg(file_name), "raise") = 1

TrialSteps == {"def", "sample_start", "call"}

RECURSIVE Pattern(_)
Pattern(n) == IF n = 0 THEN <<>> ELSE <<"def", "sample_start", "call">> \o Pattern(n - 1)

\* the build, probe and call events of file f, in order
StepsOf(f) == EvNames(SelectSeq(Seg(f), LAMBDA x : x.ev \in TrialSteps))

IsPrefix(a, b) == Len(a) <= Len(b) /\ SubSeq(b, 1, Len(a)) = a

(***************************************************************************)
(* C6: with num_runs >= 1 and every trial succeeding, the aggregator       *)
(* builds the workload, enters the probe and the probe calls the workload  *)
(* once, in this order, num_runs times: the build, probe and call events   *)
(* of a file are always a prefix of num_runs repetitions of (def,          *)
(* sample_start, call), and all of them once the aggregate is returned.    *)
(***************************************************************************)
C6_ConstructThenMeasure ==
    /\ LET p == Processed IN
       \A i \in 1..Len(p) : IsPrefix(StepsOf(p[i]), Pattern(num_runs))
    /\ pc = "write" => StepsOf(file_name) = Pattern(num_runs)

\* two trials of a file have succeeded and the aggregate is returned
C6_Witness ==
    /\ pc = "write"
    /\ num_runs = 2
    /\ Count(Seg(file_name), "call") = 2

\* the integer in token 4 of each name of the corpus that has one
NodeCount ==
    [f \in { g \in FileNames : Qualifies(g) /\ KeyFailure(g) = "none" } |-> KeyOf(f)]

(***************************************************************************)
(* C7: files are processed in non-decreasing order of the integer in       *)
(* token 4 of their names, compared as numbers: the keys of the files      *)
(* processed so far never decrease, the files processed are the first idx  *)
(* entries of sorted_files, and a listing with keys 10, 5, 100 is sorted   *)
(* to 5, 10, 100 (a fact about sorted alone, checked before the batch).    *)
(***************************************************************************)
C7_NumericKeyOrder ==
    LET p == Processed IN
    /\ \A i \in 1..(Len(p) - 1) : NodeCount[p[i]] <= NodeCount[p[i + 1]]
    /\ p = [i \in 1..idx |-> sorted_files[i][1]]
    /\ pc = "start" =>
           Sorted(Pairs(<<F10, F5, F100>>)) = <<<<F5, 5>>, <<F10, 10>>, <<F100, 100>>>>

\* a batch over the files with keys 5, 10 and 100 has processed all three
C7_Witness ==
    /\ pc = "done"
    /\ directory = {F10, F5, F100}
    /\ Processed = <<F5, F10, F100>>

\* the .gpickle names of the corpus that have no integer in token 4
MalformedNames == { f \in FileNames : Qualifies(f) /\ KeyFailure(f) # "none" }

Malformed ==
    \E f \in directory :
        IF f \in FileNames THEN f \in MalformedNames
        ELSE Qualifies(f) /\ KeyFailure(f) # "none"

NothingProcessed ==
    /\ pc \in {"start", "raised"}
    /\ pc = "raised" => exc \in {"ValueError", "IndexError"}
    /\ trace = <<>>
    /\ artifacts = NoArtifacts
    /\ derived = {}

(***************************************************************************)
(* C8: when a .gpickle name of the directory has no integer in token 4,    *)
(* the batch raises before any file is processed: no workload is built or  *)
(* called, nothing is written, and the call ends with the ValueError or    *)
(* IndexError of the key extraction.                                       *)
(***************************************************************************)
C8_MalformedCorpusIsFatal == NothingProcessed \/ ~Malformed

\* the batch has raised over a directory holding a well-formed name too
C8_Witness ==
    /\ pc = "raised"
    /\ exc = "ValueError"
    /\ {F5, FBad} \subseteq directory

(***************************************************************************)
(* C9: with num_runs = 1 the aggregation does not raise, every stdev_      *)
(* field is exactly 0, every avg_ field is the value of the single record, *)
(* and the result has exactly the ten avg_ and stdev_ fields.              *)
(***************************************************************************)
C9_SingleRun ==
    num_runs = 1 =>
        /\ exc # "StatisticsError"
        /\ \A i \in 1..Len(trace) : trace[i].arg # "StatisticsError"
        /\ metrics # <<>> =>
               /\ DOMAIN metrics[1] = StatNames
               /\ \A m \in MetricNames :
                      /\ metrics[1]["stdev_" \o m] = Zero
                      /\ metrics[1]["avg_" \o m] =
                             [num |-> combined_metrics[1][m], den |-> 1]

\* an aggregate of one record whose values are not all zero
C9_Witness ==
    /\ num_runs = 1
    /\ metrics # <<>>
    /\ combined_metrics[1].execution_time > 0
    /\ combined_metrics[1].memory_usage < 0

(***************************************************************************)
(* C10: after each file, whether it succeeded or failed, the driver        *)
(* releases metrics and calls gc.collect() before anything else happens:   *)
(* a reclamation pass has followed every earlier file when a file begins,  *)
(* and every file when the batch has ended.                                *)
(***************************************************************************)
C10_ReclaimAfterEachFile ==
    /\ \A i \in 1..Len(trace) :
           trace[i].ev = "processing" =>
               Count(SubSeq(trace, 1, i - 1), "gc") =
                   Count(SubSeq(trace, 1, i - 1), "processing")
    /\ Ended => Count(trace, "gc") = Count(trace, "processing")

Relabels(g, r) ==
    LET V == DOMAIN g.nodes
        n == Cardinality(V)
    IN  /\ r.status = "ok"
        /\ r.graph.directed = g.directed
        /\ DOMAIN r.graph.nodes = 0..(n - 1)
        /\ \E m \in [V -> 0..(n - 1)] :
            /\ \A u, v \in V : u < v => m[u] < m[v]
            /\ \A u \in V :
                /\ g.nodes[u] \subseteq r.graph.nodes[m[u]]
                /\ \A a \in r.graph.nodes[m[u]] \cup {<<"label", u>>} :
                       a[1] = "label" => a = <<"label", u>> /\ a \in r.graph.nodes[m[u]]
            /\ \A u, v \in V :
                   <<u, v>> \in DOMAIN g.edges <=>
                       <<m[u], m[v]>> \in DOMAIN r.graph.edges
            /\ \A e \in DOMAIN g.edges :
                   r.graph.edges[<<m[e[1]], m[e[2]]>>] = g.edges[e]

(***************************************************************************)
(* C12: shift_node_ids_left returns an attribute-preserving relabeling of  *)
(* its argument: the nodes are mapped one-to-one onto 0..|V|-1 in          *)
(* ascending order of the original identifiers (3, 7, 9 become 0, 1, 2),   *)
(* every new node has its original identifier as label and all original    *)
(* node attributes, and the edges are those of the argument under the map, *)
(* with their attributes.  This is asked of every call, the one on an      *)
(* input graph and the one on a graph the function returned.               *)
(***************************************************************************)
C12_Relabeling ==
    /\ pc \in {"shifted", "reshifted"} =>
           /\ Relabels(graph, shifted)
           /\ DOMAIN graph.nodes = {3, 7, 9} =>
                  \A k \in 0..2 : <<"label", <<3, 7, 9>>[k + 1]>> \in shifted.graph.nodes[k]
    /\ pc = "reshifted" => Relabels(shifted.graph, reshifted)

(***************************************************************************)
(* C13: shift_node_ids_left applied to a graph it returned (nodes 0..|V|-1 *)
(* that carry a label) completes, and returns a graph with the same node   *)
(* identifiers and the same edge set as that graph.                        *)
(***************************************************************************)
C13_IdempotentOnOwnOutput ==
    pc = "reshifted" =>
        /\ reshifted.status = "ok"
        /\ DOMAIN reshifted.graph.nodes = DOMAIN shifted.graph.nodes
        /\ DOMAIN reshifted.graph.edges = DOMAIN shifted.graph.edges

(***************************************************************************)
(* C14: the batch removes and modifies no input file.  The files it writes *)
(* are the artifacts and, in the SAFE variant only, one node-id-adjusted   *)
(* copy per input whose processing began; every input of the batch stays   *)
(* in the directory, and the path of a copy is never the path of an input  *)
(* of the batch.                                                           *)
(***************************************************************************)
C14_InputsUntouched ==
    /\ variant = "risk" => derived = {}
    /\ derived \subseteq { AdjPath(cwd, Processed[i]) : i \in 1..Len(Processed) }
    /\ \A i \in 1..Len(sorted_files) :
        /\ sorted_files[i][1] \in directory
        /\ FilePath(sorted_files[i][1]) \notin derived

(***************************************************************************)
(* C15: every trial starts from the harness-visible state of the first     *)
(* trial: when a trial's workload is built and when it is called, the      *)
(* library object of the file (risk, or sf) carries no attribute that the  *)
(* workload of an earlier trial assigned.                                  *)
(***************************************************************************)
C15_FreshStatePerTrial == pc \in {"measure", "call"} => sf = {}

(***************************************************************************)
(* C16: the processing order is a function of the set of qualifying file   *)
(* names alone: whatever order os.listdir presents the entries in, the     *)
(* batch works through the same sorted_files, also when two names carry    *)
(* the same key.                                                           *)
(***************************************************************************)
C16_OrderFromNameSet ==
    pc = "loop" /\ idx = 0 =>
        \A listing \in Listings(directory) : Sorted(Pairs(listing)) = sorted_files

(***************************************************************************)
(* C17: the aggregate the trial aggregator returns is reduced from exactly *)
(* num_runs records, each appended by a completed probe of the file being  *)
(* processed; and at every step of the trial loop the records list is as   *)
(* long as the number of completed trials.                                 *)
(***************************************************************************)
C17_RecordsAreThisFilesTrials ==
    /\ pc = "for" => Len(combined_metrics) = run
    /\ pc \in {"measure", "call", "measured"} => Len(combined_metrics) = run - 1
    /\ pc \in {"for", "measure", "call", "measured", "write"} =>
           Len(combined_metrics) = Count(Seg(file_name), "sample_end")
    /\ metrics # <<>> =>
           /\ Len(combined_metrics) = num_runs
           /\ Count(Seg(file_name), "sample_end") = num_runs
           /\ metrics[1] = calculate_stats(combined_metrics, num_runs)

\* the aggregate of the second file of a batch with two trials per file,
\* after the first file gave an aggregate of its own
C17_Witness ==
    /\ pc = "write"
    /\ idx = 2
    /\ num_runs = 2
    /\ metrics # <<>>
    /\ Count(trace, "sample_end") = 4

\* the calls of one successful measure_performance, in order
ProbeSteps ==
    <<"sample_start", "trace_start", "call", "peak_read", "trace_stop", "sample_end">>

(***************************************************************************)
(* C18: a measure_performance call that returns has made its calls in the  *)
(* order start snapshots, tracemalloc.start, the workload (once), read of  *)
(* the traced peak, tracemalloc.stop, end snapshots.  The tracer is active *)
(* from the start of the workload to the read of the peak, so the record   *)
(* holds the traced peak; the start and the stop of the trace lie between  *)
(* the two snapshots, so the record's times span them.                     *)
(***************************************************************************)
C18_ProbeOrder ==
    /\ \A i \in 1..Len(trace) :
           trace[i].ev = "sample_end" =>
               /\ i >= Len(ProbeSteps)
               /\ EvNames(SubSeq(trace, i - 5, i)) = ProbeSteps
               /\ \A k \in (i - 5)..i : trace[k].file = trace[i].file
    /\ pc \in {"call", "measured"} => tracing
    /\ pc = "for" /\ run >= 1 /\ Len(combined_metrics) = run =>
           /\ combined_metrics[run].peak_memory_usage = proc.peak \div MB
           /\ combined_metrics[run].execution_time = proc.time - start_sample.time

\* a probe has returned a record with a traced peak and an elapsed time
C18_Witness ==
    /\ pc = "for"
    /\ run >= 1
    /\ Len(combined_metrics) = run
    /\ trace[Len(trace)].ev = "sample_end"
    /\ combined_metrics[run].peak_memory_usage > 0
    /\ combined_metrics[run].execution_time > 0

\* the statistical test a selector names
TestNamed ==
    [permutation |-> "permutation", binom |-> "binomial", chi2 |-> "chi-squared",
     hypergeom |-> "hypergeometric", poisson |-> "Poisson", zscore |-> "z-score"]

\* the statistical test a library call computes: a load_neighborhoods_by_*
\* method of RISK, or compute_pvalues of SAFE under an enrichment_type
TestComputed(call) ==
    CASE call \in {"load_neighborhoods_by_permutation", "permutation"} -> "permutation"
      [] call = "load_neighborhoods_by_binom" -> "binomial"
      [] call = "load_neighborhoods_by_chi2" -> "chi-squared"
      [] call \in {"load_neighborhoods_by_hypergeom", "hypergeometric"} -> "hypergeometric"
      [] call = "load_neighborhoods_by_poisson" -> "Poisson"
      [] call = "load_neighborhoods_by_zscore" -> "z-score"

(***************************************************************************)
(* C19: the workload runs the statistical test the selector names and no   *)
(* other: under each of the six selectors, every library computation a     *)
(* workload of the RISK or of the SAFE variant has made is the one of      *)
(* that test.                                                              *)
(***************************************************************************)
C19_SelectedTestRuns ==
    \A i \in 1..Len(trace) :
        trace[i].ev = "call" /\ trace[i].arg # "none" =>
            TestComputed(trace[i].arg) = TestNamed[stat_test]

(***************************************************************************)
(* C20: in the SAFE variant the node ids of an input are adjusted and the  *)
(* adjusted graph is written once per input, before the first trial of     *)
(* the input is built and outside every probe; the file is written into    *)
(* the directory of the input, as its sibling; and an error this step      *)
(* raises is caught and logged as the error of that input.                 *)
(***************************************************************************)
C20_AdjustOncePerInput ==
    /\ \A i \in 1..Len(trace) :
           trace[i].ev \in {"shift_node_ids_left", "write_gpickle"} =>
               /\ variant = "safe"
               /\ Count(SegBefore(trace[i].file, i), trace[i].ev) = 0
               /\ Count(SegBefore(trace[i].file, i), "def") = 0
               /\ Count(SegBefore(trace[i].file, i), "sample_start") = 0
    /\ \A i \in 1..Len(trace) :
           trace[i].ev = "def" /\ variant = "safe" =>
               /\ Count(SegBefore(trace[i].file, i), "shift_node_ids_left") = 1
               /\ Count(SegBefore(trace[i].file, i), "write_gpickle") = 1
    /\ \A d \in derived : d[1] = InputDir
    /\ exc = "LibraryError" => pc = "except"
    /\ \A i \in 1..Len(trace) :
           trace[i].arg = "LibraryError" =>
               /\ trace[i].ev = "error"
               /\ trace[i - 1].file = trace[i].file
               /\ trace[i - 1].ev \in {"processing", "write_gpickle"}

\* the names of the entries of a sorted list of (file_name, key) pairs
NamesOf(s) == { s[i][1] : i \in 1..Len(s) }

(***************************************************************************)
(* C21: the jobs of a batch are fixed by the one listing taken before the  *)
(* first file is processed.  The listing yields the qualifying names that  *)
(* are in the directory at that moment, and sorted_files never changes     *)
(* afterwards; the files processed are the first idx entries of it, each   *)
(* once; and a file the batch creates (an artifact, or an adjusted copy    *)
(* that appears in the input directory) is not among the jobs.             *)
(***************************************************************************)
C21_JobsFixedByListing ==
    [][/\ pc # "start" => sorted_files' = sorted_files
       /\ pc = "start" /\ pc' = "loop" =>
              NamesOf(sorted_files') = { f \in directory : Qualifies(f) }
       /\ Len(trace') # Len(trace) =>
              /\ Processed' = [i \in 1..idx' |-> sorted_files'[i][1]]
              /\ \A i, j \in 1..idx' : i # j => Processed'[i] # Processed'[j]
       /\ \A n \in directory' \ directory : n \notin NamesOf(sorted_files')
       /\ \A n \in DOMAIN artifacts' \ DOMAIN artifacts :
              ~Qualifies(n) /\ n \notin NamesOf(sorted_files')]_vars

\* the batch has returned, and the input directory holds a qualifying file
\* that the batch created and did not process
C21_Witness ==
    /\ pc = "done"
    /\ Len(Processed) >= 1
    /\ DOMAIN artifacts # {}
    /\ \E n \in directory : Qualifies(n) /\ n \notin NamesOf(sorted_files)

(***************************************************************************)
(* C22: with num_runs = 0 the trial aggregator builds and calls no         *)
(* workload and enters no probe, and it returns no aggregate: reducing the *)
(* empty list of records raises StatisticsError, which is the error of     *)
(* every file whose trials were reached.  No artifact is written for any   *)
(* file of such a batch.                                                   *)
(***************************************************************************)
C22_ZeroRunsNoArtifact ==
    num_runs = 0 =>
        /\ \A i \in 1..Len(trace) :
               /\ trace[i].ev \notin {"def", "sample_start", "trace_start", "call",
                                      "write_json", "saved"}
               /\ trace[i].ev = "error" =>
                      trace[i].arg \in {"LibraryError", "StatisticsError"}
        /\ combined_metrics = <<>>
        /\ metrics = <<>>
        /\ artifacts = NoArtifacts
        /\ pc \notin {"measure", "call", "measured", "write"}
        /\ pc = "except" => exc \in {"LibraryError", "StatisticsError"}

\* a batch of zero trials has reached the aggregation of a file, which
\* raised, and has ended with nothing written
C22_Witness ==
    /\ num_runs = 0
    /\ Ended
    /\ \E i \in 1..Len(trace) : trace[i].arg = "StatisticsError"
    /\ artifacts = NoArtifacts

====
